---- MODULE Spec2Model ----
(***************************************************************************)
(* Model of the genetic-programming core of evco: Individual (gp/mod.rs),  *)
(* Crossover (gp/crossover.rs) and TreeGen (gp/tree/gen.rs).               *)
(*                                                                         *)
(* A tree node is a record [label, children]; children is the ordered      *)
(* sequence of owned child nodes.  Labels are unique per node so that the  *)
(* position of every node can be followed through exchanges.               *)
(***************************************************************************)
EXTENDS Integers, Sequences, FiniteSets, TLC

VARIABLES indv1, indv2, last, steps, single, panicked, tg, cur_depth, pc, last_call

vars == <<indv1, indv2, last, steps, single, panicked, tg, cur_depth, pc, last_call>>
indvVars == <<indv1, indv2, last, steps, single, panicked>>
genVars == <<tg, cur_depth, pc, last_call>>

\* ---------------------------------------------------------------- bounds
\* Largest number of nodes of an initial tree handed to a single operation.
MaxNodes == 4
\* Largest number of nodes of an initial tree in a sequence of operations.
MaxSeqNodes == 3
\* Number of operations in a sequence applied to a pair of individuals.
MaxSteps == 2
\* Largest max_depth handed to prune_at / hard_prune.
MaxPruneDepth == 3
\* Largest max_depth handed to a TreeGen constructor.
MaxGenDepth == 3

\* ---------------------------------------------------------------- trees
Node(l, ch) == [label |-> l, children |-> ch]
Leaf(l) == Node(l, <<>>)

\* Tree::count_children
count_children(node) == Len(node.children)

RECURSIVE SumSeq(_)
SumSeq(s) == IF s = <<>> THEN 0 ELSE Head(s) + SumSeq(Tail(s))

RECURSIVE ConcatAll(_)
ConcatAll(ss) == IF ss = <<>> THEN <<>> ELSE Head(ss) \o ConcatAll(Tail(ss))

\* The visiting order of map / map_while: the paths (sequences of child
\* positions) of all nodes, parent before children, children in order.
\* The node visited with index i is the one at Preorder(t)[i + 1]; its depth
\* is the length of its path (root at depth 0).
RECURSIVE Preorder(_)
Preorder(t) ==
    <<<<>>>> \o ConcatAll([i \in 1..Len(t.children) |->
                  LET sub == Preorder(t.children[i])
                  IN [k \in 1..Len(sub) |-> <<i>> \o sub[k]]])

\* BoxTree::count_nodes: one visit per node of a full traversal.
count_nodes(t) == Len(Preorder(t))

RECURSIVE NodeAt(_, _)
NodeAt(t, p) == IF p = <<>> THEN t ELSE NodeAt(t.children[Head(p)], Tail(p))

\* The tree t with the node at path p (and all it owns) replaced by s.
RECURSIVE PutAt(_, _, _)
PutAt(t, p, s) ==
    IF p = <<>> THEN s
    ELSE [t EXCEPT !.children[Head(p)] = PutAt(t.children[Head(p)], Tail(p), s)]

\* ---------------------------------------------------------------- Individual
\* Individual::new_from_tree: wraps the tree, then recalculate_metadata.
new_from_tree(boxtree) == [tree |-> boxtree, nodes_count |-> count_nodes(boxtree)]

\* Individual::recalculate_metadata
recalculate_metadata(indv) == [indv EXCEPT !.nodes_count = count_nodes(indv.tree)]

\* Variant of first_leaf that stops at the first child without descending.
first_leaf_shallow(node) ==
    IF node.children # <<>> THEN node.children[1] ELSE node

\* Variant of first_leaf that descends into the last child.
RECURSIVE first_leaf_last(_)
first_leaf_last(node) ==
    IF node.children # <<>>
    THEN first_leaf_last(node.children[Len(node.children)])
    ELSE node

\* first_leaf: descend into the first child until a childless node.
RECURSIVE first_leaf(_)
first_leaf(node) ==
    IF node.children # <<>> THEN first_leaf(node.children[1]) ELSE node

\* Variant of the prune closure that tests depth == max_depth.
PruneVisitor_offbyone(node, depth, max_depth) ==
    IF depth = max_depth /\ count_children(node) # 0
    THEN first_leaf(node)
    ELSE node

\* The closure handed to map by prune_at.  depth == max_depth - 1 is on usize:
\* for max_depth = 0 the subtraction wraps to usize::MAX (when it does not
\* panic, see PruneOutcomes), which no depth of a tree equals, so the test is
\* depth + 1 = max_depth for every max_depth.
PruneVisitor(node, depth, max_depth) ==
    IF depth + 1 = max_depth /\ count_children(node) # 0
    THEN first_leaf(node)
    ELSE node

\* BoxTree::map specialised to the prune closure: the visitor acts on the
\* node first, then the children of the node as the visitor left it are
\* visited one level deeper.
RECURSIVE MapPrune(_, _, _)
MapPrune(node, depth, max_depth) ==
    LET n1 == PruneVisitor(node, depth, max_depth)
    IN [n1 EXCEPT !.children =
            [i \in 1..Len(n1.children) |-> MapPrune(n1.children[i], depth + 1, max_depth)]]

\* Individual::prune_at: the tree is rewritten, nodes_count is not touched.
prune_at(indv, max_depth) == [indv EXCEPT !.tree = MapPrune(indv.tree, 0, max_depth)]

\* max_depth - 1 with max_depth = 0: a panic in a build with overflow
\* checks, a wrap otherwise.  The closure runs first on the root, so the
\* panic comes before any node is changed.
PruneOutcomes(max_depth) == IF max_depth = 0 THEN {"panic", "wrap"} ELSE {"ok"}

\* ---------------------------------------------------------------- Crossover
\* BoxTree::map_while driven by the closure `index == target_index`
\* (crossover.rs 86 and 88): nodes are visited with index k, k + 1, ... until
\* the closure returns false.  The result is the index of the node at which
\* the walk was stopped, or -1 when all n nodes were visited without a match.
RECURSIVE WalkToIndex(_, _, _)
WalkToIndex(n, k, target_index) ==
    IF k >= n THEN -1
    ELSE IF k = target_index THEN k
    ELSE WalkToIndex(n, k + 1, target_index)

\* Variant of the exchange that copies node2 into node1 and leaves tree2 as
\* it was.
SwapNodes_clone(tree1, tree2, j1, j2) ==
    LET p1 == Preorder(tree1)[j1 + 1]
        p2 == Preorder(tree2)[j2 + 1]
    IN [tree1 |-> PutAt(tree1, p1, NodeAt(tree2, p2)),
        tree2 |-> tree2]

\* mem::swap(node1, node2) with node1 at visiting index j1 of tree1 and node2
\* at visiting index j2 of tree2: each position now owns the other's subtree.
SwapNodes(tree1, tree2, j1, j2) ==
    LET p1 == Preorder(tree1)[j1 + 1]
        p2 == Preorder(tree2)[j2 + 1]
    IN [tree1 |-> PutAt(tree1, p1, NodeAt(tree2, p2)),
        tree2 |-> PutAt(tree2, p2, NodeAt(tree1, p1))]

\* Variant of mate_one_point whose inner closure compares with target_index1.
mate_one_point_sameidx(i1v, i2v, target_index1, target_index2) ==
    LET j1 == WalkToIndex(count_nodes(i1v.tree), 0, target_index1)
        j2 == IF j1 = -1 THEN -1
              ELSE WalkToIndex(count_nodes(i2v.tree), 0, target_index1)
        sw == IF j1 # -1 /\ j2 # -1
              THEN SwapNodes(i1v.tree, i2v.tree, j1, j2)
              ELSE [tree1 |-> i1v.tree, tree2 |-> i2v.tree]
    IN [indv1 |-> recalculate_metadata([i1v EXCEPT !.tree = sw.tree1]),
        indv2 |-> recalculate_metadata([i2v EXCEPT !.tree = sw.tree2]),
        j1 |-> j1, j2 |-> j2]

\* Crossover::mate_one_point after the two draws.  The inner walk runs only
\* if the outer walk reaches target_index1; both individuals are recounted
\* whether or not an exchange took place.
mate_one_point(i1v, i2v, target_index1, target_index2) ==
    LET j1 == WalkToIndex(count_nodes(i1v.tree), 0, target_index1)
        j2 == IF j1 = -1 THEN -1
              ELSE WalkToIndex(count_nodes(i2v.tree), 0, target_index2)
        sw == IF j1 # -1 /\ j2 # -1
              THEN SwapNodes(i1v.tree, i2v.tree, j1, j2)
              ELSE [tree1 |-> i1v.tree, tree2 |-> i2v.tree]
    IN [indv1 |-> recalculate_metadata([i1v EXCEPT !.tree = sw.tree1]),
        indv2 |-> recalculate_metadata([i2v EXCEPT !.tree = sw.tree2]),
        j1 |-> j1, j2 |-> j2]

\* The inner closure of mate_one_point_leaf_biased (crossover.rs 122-137),
\* run over tree2 from visiting index k with the captured target_index2 and
\* node_counter.  target_index2 is a usize: a value below zero stands for the
\* wrapped value 2^64 + target_index2, which no node_counter reaches, and
\* `underflow` records that the subtraction overflowed.
\* Result: j = index of the exchanged node (-1: none), underflow.
RECURSIVE LeafBiasedWalk(_, _, _, _, _)
LeafBiasedWalk(tree2, k, target_index2, node_counter, leaf) ==
    IF k >= count_nodes(tree2) THEN [j |-> -1, underflow |-> FALSE]
    ELSE
      LET node2 == NodeAt(tree2, Preorder(tree2)[k + 1])
          is_leaf == count_children(node2) = 0
      IN IF is_leaf # leaf
         THEN LET rest == LeafBiasedWalk(tree2, k + 1, target_index2 - 1, node_counter, leaf)
              IN [rest EXCEPT !.underflow = @ \/ target_index2 = 0]
         ELSE IF node_counter = target_index2
              THEN [j |-> k, underflow |-> FALSE]
              ELSE LeafBiasedWalk(tree2, k + 1, target_index2, node_counter + 1, leaf)

\* Crossover::mate_one_point_leaf_biased after the coin and the two draws.
\* No recalculate_metadata follows the exchange.
mate_one_point_leaf_biased(i1v, i2v, leaf, target_index1, target_index2) ==
    LET j1 == WalkToIndex(count_nodes(i1v.tree), 0, target_index1)
        w  == IF j1 = -1 THEN [j |-> -1, underflow |-> FALSE]
              ELSE LeafBiasedWalk(i2v.tree, 0, target_index2, 0, leaf)
        sw == IF j1 # -1 /\ w.j # -1
              THEN SwapNodes(i1v.tree, i2v.tree, j1, w.j)
              ELSE [tree1 |-> i1v.tree, tree2 |-> i2v.tree]
    IN [indv1 |-> [i1v EXCEPT !.tree = sw.tree1],
        indv2 |-> [i2v EXCEPT !.tree = sw.tree2],
        j1 |-> j1, j2 |-> w.j, underflow |-> w.underflow]

\* Variant of mate_hard_prune that prunes both individuals.
mate_hard_prune_both(i1v, i2v, max_depth, target_index1, target_index2) ==
    LET r == mate_one_point(i1v, i2v, target_index1, target_index2)
    IN [r EXCEPT !.indv1 = prune_at(r.indv1, max_depth),
                 !.indv2 = prune_at(r.indv2, max_depth)]

\* Crossover::mate_hard_prune after the draws, when prune_at does not panic.
mate_hard_prune(i1v, i2v, max_depth, target_index1, target_index2) ==
    LET r == mate_one_point(i1v, i2v, target_index1, target_index2)
    IN [r EXCEPT !.indv1 = prune_at(r.indv1, max_depth)]

\* ---------------------------------------------------------------- initial trees
Names1 == <<"A", "B", "C", "D", "E", "F">>
Names2 == <<"X", "Y", "Z", "W", "V", "U">>

\* All ordered tree shapes of n nodes / all forests of m nodes in total.
RECURSIVE Shapes(_), Forests(_)
Shapes(n) == { Node("", f) : f \in Forests(n - 1) }
Forests(m) ==
    IF m = 0 THEN {<<>>}
    ELSE UNION { { <<t>> \o f : t \in Shapes(k), f \in Forests(m - k) } : k \in 1..m }

\* The shape t with its nodes named names[k], names[k + 1], ... in visiting order.
RECURSIVE Relabel(_, _, _)
Relabel(t, names, k) ==
    LET sizes == [i \in 1..Len(t.children) |-> count_nodes(t.children[i])]
        off(i) == k + 1 + SumSeq(SubSeq(sizes, 1, i - 1))
    IN Node(names[k], [i \in 1..Len(t.children) |-> Relabel(t.children[i], names, off(i))])

\* A(B(D,E), C): the tree of the pruning scenario.
PruneScenarioTree == Node("A", <<Node("B", <<Leaf("D"), Leaf("E")>>), Leaf("C")>>)

InitTrees1(max_nodes) ==
    { Relabel(t, Names1, 1) : t \in UNION { Shapes(n) : n \in 1..max_nodes } }
        \cup {PruneScenarioTree}
InitTrees2(max_nodes) ==
    { Relabel(t, Names2, 1) : t \in UNION { Shapes(n) : n \in 1..max_nodes } }

\* ---------------------------------------------------------------- TreeGen
NoGen == [mode |-> "none", chosen_depth |-> 0, min_depth |-> 0, max_depth |-> 0]
NoCall == [by |-> "none", depth |-> 0, result |-> FALSE, drew |-> FALSE]

\* Variant of the draw whose upper end max_depth + 1 is included.
ChosenDepths_inclusive(min_depth, max_depth) == min_depth..(max_depth + 1)

\* rng.gen_range(min_depth, max_depth + 1): the values the draw can return.
ChosenDepths(min_depth, max_depth) == min_depth..max_depth

\* TreeGen::perfect with the drawn depth.
perfect(min_depth, max_depth, chosen_depth) ==
    [mode |-> "Perfect", chosen_depth |-> chosen_depth,
     min_depth |-> min_depth, max_depth |-> max_depth]

\* TreeGen::full
full(min_depth, max_depth) ==
    [mode |-> "Full", chosen_depth |-> 0, min_depth |-> min_depth, max_depth |-> max_depth]

\* TreeGen::full_ranged with the drawn depth.
full_ranged(min_depth, max_depth, chosen_depth) ==
    [mode |-> "FullRanged", chosen_depth |-> chosen_depth,
     min_depth |-> min_depth, max_depth |-> max_depth]

\* self.gen_bool(1.0 / depth_interval as f64): 1.0 / 0 is +inf, a
\* probability outside [0, 1], which gen_bool rejects with a panic; 1.0 / 1
\* is certain; every smaller probability can give either value.
gen_bool(depth_interval) ==
    IF depth_interval = 0 THEN {"panic"}
    ELSE IF depth_interval = 1 THEN {"true"}
    ELSE {"true", "false"}

\* Variant of the leaf decision without the forced leaf at the cap.
LeafOrDraw_noforce(current_depth, cap, min_depth, depth_interval) ==
    IF current_depth >= min_depth
    THEN {[result |-> b, drew |-> TRUE] : b \in gen_bool(depth_interval)}
    ELSE {[result |-> "false", drew |-> FALSE]}

\* current_depth == cap || (current_depth >= min_depth && gen_bool(1 / interval)),
\* with the short-circuit evaluation of || and &&: the outcomes it can have.
LeafOrDraw(current_depth, cap, min_depth, depth_interval) ==
    IF current_depth = cap
    THEN {[result |-> "true", drew |-> FALSE]}
    ELSE IF current_depth >= min_depth
         THEN {[result |-> b, drew |-> TRUE] : b \in gen_bool(depth_interval)}
         ELSE {[result |-> "false", drew |-> FALSE]}

\* TreeGen::have_reached_a_leaf: the set of outcomes of one call; result is
\* "true", "false" or "panic", drew tells whether the rng was used.
have_reached_a_leaf(g, current_depth) ==
    CASE g.mode = "Perfect" ->
           {[result |-> IF current_depth = g.chosen_depth THEN "true" ELSE "false",
             drew |-> FALSE]}
      [] g.mode = "Full" ->
           LeafOrDraw(current_depth, g.max_depth, g.min_depth, g.max_depth - g.min_depth)
      [] g.mode = "FullRanged" ->
           LeafOrDraw(current_depth, g.chosen_depth, g.min_depth,
                      g.chosen_depth - g.min_depth)

\* ---------------------------------------------------------------- operations on individuals
NoOp(a, b) ==
    [op |-> "new", pre1 |-> a, pre2 |-> b, i1 |-> 0, i2 |-> 0, leaf |-> FALSE,
     md |-> 0, j1 |-> -1, j2 |-> -1, underflow |-> FALSE, who |-> 0]

GenIdle == tg = NoGen /\ cur_depth = 0 /\ pc = "idle" /\ last_call = NoCall

\* Individual::new / new_from_tree for both individuals; one operation follows.
Init ==
    /\ indv1 \in { new_from_tree(t) : t \in InitTrees1(MaxNodes) }
    /\ indv2 \in { new_from_tree(t) : t \in InitTrees2(MaxNodes) }
    /\ last = NoOp(indv1, indv2)
    /\ steps = 0
    /\ single = TRUE
    /\ panicked = FALSE
    /\ GenIdle

\* As Init with smaller trees, followed by a sequence of operations.
InitSeq ==
    /\ indv1 \in { new_from_tree(t) : t \in InitTrees1(MaxSeqNodes) }
    /\ indv2 \in { new_from_tree(t) : t \in InitTrees2(MaxSeqNodes) }
    /\ last = NoOp(indv1, indv2)
    /\ steps = 0
    /\ single = FALSE
    /\ panicked = FALSE
    /\ GenIdle

\* A panic ends the program.
CanAct == ~panicked /\ (IF single THEN steps = 0 ELSE steps < MaxSteps)

\* Crossover::one_point().mate(indv1, indv2, rng)
MateOnePoint ==
    /\ CanAct
    /\ \E target_index1 \in 0..(indv1.nodes_count - 1),
          target_index2 \in 0..(indv2.nodes_count - 1) :
         LET r == mate_one_point(indv1, indv2, target_index1, target_index2)
         IN /\ indv1' = r.indv1
            /\ indv2' = r.indv2
            /\ last' = [NoOp(indv1, indv2) EXCEPT !.op = "one_point",
                           !.i1 = target_index1, !.i2 = target_index2,
                           !.j1 = r.j1, !.j2 = r.j2]
    /\ steps' = steps + 1
    /\ UNCHANGED <<single, panicked, genVars>>

\* Crossover::one_point_leaf_biased(termpb).mate(indv1, indv2, rng); leaf is
\* the outcome of gen_bool(termpb).  An overflowing target_index2 -= 1
\* panics in a build with overflow checks (before any exchange) and wraps
\* otherwise.
MateOnePointLeafBiased ==
    /\ CanAct
    /\ \E leaf \in BOOLEAN,
          target_index1 \in 0..(indv1.nodes_count - 1),
          target_index2 \in 0..(indv2.nodes_count - 1) :
         LET r == mate_one_point_leaf_biased(indv1, indv2, leaf, target_index1, target_index2)
         IN /\ indv1' = r.indv1
            /\ indv2' = r.indv2
            /\ panicked' \in (IF r.underflow THEN BOOLEAN ELSE {FALSE})
            /\ last' = [NoOp(indv1, indv2) EXCEPT !.op = "one_point_leaf_biased",
                           !.leaf = leaf, !.i1 = target_index1, !.i2 = target_index2,
                           !.j1 = r.j1, !.j2 = r.j2, !.underflow = r.underflow]
    /\ steps' = steps + 1
    /\ UNCHANGED <<single, genVars>>

\* Crossover::hard_prune(max_depth).mate(indv1, indv2, rng)
MateHardPrune ==
    /\ CanAct
    /\ \E max_depth \in 0..MaxPruneDepth,
          target_index1 \in 0..(indv1.nodes_count - 1),
          target_index2 \in 0..(indv2.nodes_count - 1) :
       \E outcome \in PruneOutcomes(max_depth) :
         LET r == IF outcome = "panic"
                  THEN mate_one_point(indv1, indv2, target_index1, target_index2)
                  ELSE mate_hard_prune(indv1, indv2, max_depth, target_index1, target_index2)
         IN /\ indv1' = r.indv1
            /\ indv2' = r.indv2
            /\ panicked' = (outcome = "panic")
            /\ last' = [NoOp(indv1, indv2) EXCEPT !.op = "hard_prune",
                           !.md = max_depth, !.i1 = target_index1, !.i2 = target_index2,
                           !.j1 = r.j1, !.j2 = r.j2]
    /\ steps' = steps + 1
    /\ UNCHANGED <<single, genVars>>

\* indv1.prune_at(max_depth), called directly.
PruneAt ==
    /\ CanAct
    /\ \E max_depth \in 0..MaxPruneDepth : \E outcome \in PruneOutcomes(max_depth) :
         /\ indv1' = IF outcome = "panic" THEN indv1 ELSE prune_at(indv1, max_depth)
         /\ panicked' = (outcome = "panic")
         /\ last' = [NoOp(indv1, indv2) EXCEPT !.op = "prune_at", !.md = max_depth, !.who = 1]
    /\ steps' = steps + 1
    /\ UNCHANGED <<indv2, single, genVars>>

\* indv.recalculate_metadata(), called directly on either individual.
RecalculateMetadata ==
    /\ CanAct
    /\ \E who \in {1, 2} :
         /\ indv1' = IF who = 1 THEN recalculate_metadata(indv1) ELSE indv1
         /\ indv2' = IF who = 2 THEN recalculate_metadata(indv2) ELSE indv2
         /\ last' = [NoOp(indv1, indv2) EXCEPT !.op = "recalculate_metadata", !.who = who]
    /\ steps' = steps + 1
    /\ UNCHANGED <<single, panicked, genVars>>

Next ==
    \/ MateOnePoint
    \/ MateOnePointLeafBiased
    \/ MateHardPrune
    \/ PruneAt
    \/ RecalculateMetadata

Spec == Init /\ [][Next]_vars

\* Sequences of Crossover::mate calls alone, in any of the three modes.
NextMate ==
    \/ MateOnePoint
    \/ MateOnePointLeafBiased
    \/ MateHardPrune

SpecMate == InitSeq /\ [][NextMate]_vars

\* ---------------------------------------------------------------- operations on a TreeGen
IndvIdle ==
    /\ indv1 = new_from_tree(Leaf("A"))
    /\ indv2 = new_from_tree(Leaf("X"))
    /\ last = NoOp(indv1, indv2)
    /\ steps = 0 /\ single = TRUE /\ panicked = FALSE

InitGen == IndvIdle /\ GenIdle

DepthRanges ==
    { r \in (0..MaxGenDepth) \X (0..MaxGenDepth) : r[1] <= r[2] }

\* A TreeGen is built; the construction of a tree starts at depth 0.
Start(g) ==
    /\ tg' = g
    /\ cur_depth' = 0
    /\ pc' = "building"
    /\ last_call' = NoCall
    /\ UNCHANGED indvVars

\* TreeGen::perfect(rng, min_depth, max_depth)
NewPerfect ==
    /\ pc = "idle"
    /\ \E r \in DepthRanges : \E d \in ChosenDepths(r[1], r[2]) :
         Start(perfect(r[1], r[2], d))

\* TreeGen::full(rng, min_depth, max_depth)
NewFull ==
    /\ pc = "idle"
    /\ \E r \in DepthRanges : Start(full(r[1], r[2]))

\* TreeGen::full_ranged(rng, min_depth, max_depth)
NewFullRanged ==
    /\ pc = "idle"
    /\ \E r \in DepthRanges : \E d \in ChosenDepths(r[1], r[2]) :
         Start(full_ranged(r[1], r[2], d))

\* TreeGen::half_and_half(rng, min_depth, max_depth): rng.gen() picks one of
\* perfect and full_ranged.
NewHalfAndHalf ==
    /\ pc = "idle"
    /\ \E r \in DepthRanges : \E d \in ChosenDepths(r[1], r[2]) : \E coin \in BOOLEAN :
         Start(IF coin THEN perfect(r[1], r[2], d) ELSE full_ranged(r[1], r[2], d))

\* One recursion step of the node construction: have_reached_a_leaf is asked
\* at the current depth; true emits a leaf, false descends one level.
Child ==
    /\ pc = "building"
    /\ cur_depth <= MaxGenDepth + 1
    /\ \E o \in have_reached_a_leaf(tg, cur_depth) :
         /\ last_call' = [by |-> "child", depth |-> cur_depth,
                          result |-> (o.result = "true"), drew |-> o.drew]
         /\ pc' = CASE o.result = "true" -> "leaf"
                    [] o.result = "false" -> "building"
                    [] o.result = "panic" -> "panicked"
         /\ cur_depth' = IF o.result = "false" THEN cur_depth + 1 ELSE cur_depth
    /\ UNCHANGED <<tg, indvVars>>

\* After a leaf the construction goes on with another path from the root.
NextPath ==
    /\ pc = "leaf"
    /\ pc' = "building"
    /\ cur_depth' = 0
    /\ UNCHANGED <<tg, last_call, indvVars>>

\* have_reached_a_leaf called directly with any depth.
Query ==
    /\ pc \in {"building", "leaf"}
    /\ \E current_depth \in 0..(MaxGenDepth + 1) :
       \E o \in have_reached_a_leaf(tg, current_depth) :
         /\ last_call' = [by |-> "query", depth |-> current_depth,
                          result |-> (o.result = "true"), drew |-> o.drew]
         /\ pc' = IF o.result = "panic" THEN "panicked" ELSE pc
    /\ UNCHANGED <<tg, cur_depth, indvVars>>

NextGen ==
    \/ NewPerfect
    \/ NewFull
    \/ NewFullRanged
    \/ NewHalfAndHalf
    \/ Child
    \/ NextPath
    \/ Query

SpecGen == InitGen /\ [][NextGen]_vars

\* ---------------------------------------------------------------- properties
\* The number of nodes of a tree, by structural recursion.
RECURSIVE Size(_)
Size(t) == 1 + SumSeq([i \in 1..Len(t.children) |-> Size(t.children[i])])

\* The largest depth of a node of the tree (a single leaf has height 0).
RECURSIVE Height(_)
Height(t) ==
    IF t.children = <<>> THEN 0
    ELSE LET hs == [i \in 1..Len(t.children) |-> Height(t.children[i])]
         IN 1 + CHOOSE h \in {hs[i] : i \in 1..Len(hs)} : \A i \in 1..Len(hs) : hs[i] <= h

\* The tree written as the sequence of its nodes in depth-first pre-order, each
\* with its number of children; a tree is determined by this sequence.
RECURSIVE Flat(_)
Flat(t) ==
    <<[label |-> t.label, arity |-> Len(t.children)]>>
        \o ConcatAll([i \in 1..Len(t.children) |-> Flat(t.children[i])])

\* The position in F at which the subtree starting at position p ends.
RECURSIVE SubtreeEnd(_, _, _)
SubtreeEnd(F, p, need) ==
    LET n == need - 1 + F[p].arity
    IN IF n = 0 THEN p ELSE SubtreeEnd(F, p + 1, n)

SubtreeOf(F, p) == SubSeq(F, p, SubtreeEnd(F, p, 1))

\* F with the subtree starting at position p replaced by G.
Splice(F, p, G) ==
    SubSeq(F, 1, p - 1) \o G \o SubSeq(F, SubtreeEnd(F, p, 1) + 1, Len(F))

Accurate(indv) == indv.nodes_count = Size(indv.tree)

PreAccurate == Accurate(last.pre1) /\ Accurate(last.pre2)

\* The node of pre-order index i1 of tree a and the node of index i2 of tree b
\* have been exchanged, giving trees a2 and b2.
Exchanged(a, b, i1, i2, a2, b2) ==
    LET F1 == Flat(a)
        F2 == Flat(b)
    IN /\ Flat(a2) = Splice(F1, i1 + 1, SubtreeOf(F2, i2 + 1))
       /\ Flat(b2) = Splice(F2, i2 + 1, SubtreeOf(F1, i1 + 1))

TreeABC == Node("A", <<Leaf("B"), Leaf("C")>>)
TreeAXC == Node("A", <<Leaf("X"), Leaf("C")>>)
TreeADC == Node("A", <<Leaf("D"), Leaf("C")>>)

MateOps == {"one_point", "one_point_leaf_biased", "hard_prune"}

\* C1: one_point mate on two trees with accurate nodes_count leaves the sum of
\* the two cached counts, and the sum of the two true node counts, unchanged.
C1_SumPreserved ==
    (last.op = "one_point" /\ PreAccurate) =>
        /\ indv1.nodes_count + indv2.nodes_count
             = last.pre1.nodes_count + last.pre2.nodes_count
        /\ Size(indv1.tree) + Size(indv2.tree)
             = Size(last.pre1.tree) + Size(last.pre2.tree)

\* A one_point mate that moved nodes from one individual to the other.
C1_Witness ==
    /\ last.op = "one_point" /\ PreAccurate
    /\ indv1.nodes_count > last.pre1.nodes_count
    /\ indv2.nodes_count < last.pre2.nodes_count

\* C2: whenever a mate call of a sequence of mate calls reads nodes_count to
\* draw an index, the cached value is the true node count of the tree.
C2_CountAccurateWhenRead ==
    (last.op \in MateOps) => PreAccurate

\* C3: one_point mate on trees with accurate counts exchanges exactly the
\* subtree at pre-order index i1 of tree 1 with the subtree at index i2 of
\* tree 2, leaves every other node in place and sets both counts to the new
\* true counts; A(B,C) x X with i1 = 1, i2 = 0 gives A(X,C) and B, counts 3, 1.
C3_ExactExchange ==
    (last.op = "one_point" /\ PreAccurate) =>
        /\ Exchanged(last.pre1.tree, last.pre2.tree, last.i1, last.i2,
                     indv1.tree, indv2.tree)
        /\ Accurate(indv1) /\ Accurate(indv2)
        /\ (last.pre1.tree = TreeABC /\ last.pre2.tree = Leaf("X")
              /\ last.i1 = 1 /\ last.i2 = 0)
            => /\ indv1 = [tree |-> TreeAXC, nodes_count |-> 3]
               /\ indv2 = [tree |-> Leaf("B"), nodes_count |-> 1]

\* The scenario A(B,C) x X with i1 = 1, i2 = 0 after the mate.
C3_Witness ==
    /\ last.op = "one_point" /\ PreAccurate
    /\ last.pre1.tree = TreeABC /\ last.pre2.tree = Leaf("X")
    /\ last.i1 = 1 /\ last.i2 = 0
    /\ indv1.tree # last.pre1.tree

\* C4: after prune_at(max_depth) with max_depth >= 1 no node at depth
\* max_depth - 1 or deeper has children: the height is at most max_depth - 1.
C4_DepthCapped ==
    (last.op = "prune_at" /\ last.md >= 1) => Height(indv1.tree) <= last.md - 1

\* A prune_at that cut a tree reaching more than one level below the cap.
C4_Witness ==
    /\ last.op = "prune_at" /\ last.md >= 2
    /\ Height(last.pre1.tree) > last.md
    /\ Height(indv1.tree) = last.md - 1

\* C5: prune_at is idempotent: prune_at(max_depth) applied to the tree that
\* prune_at(max_depth) returned changes nothing.
C5_PruneIdempotent ==
    (last.op = "prune_at" /\ ~panicked) =>
        prune_at(indv1, last.md).tree = indv1.tree

\* A prune_at that changed the tree.
C5_Witness ==
    /\ last.op = "prune_at" /\ ~panicked
    /\ indv1.tree # last.pre1.tree

\* C6 as stated: prune_at(1) on A(B(D,E), C) yields A(D, C).
C6_Original ==
    (last.op = "prune_at" /\ ~panicked /\ last.pre1.tree = PruneScenarioTree
        /\ last.md = 1)
      => indv1.tree = TreeADC

\* C6 amended: on A(B(D,E), C) it is prune_at(2) that keeps A and C and
\* replaces B with D, yielding A(D, C); prune_at(1) replaces the root itself
\* and yields the single leaf D.
C6_Amended ==
    (last.op = "prune_at" /\ ~panicked /\ last.pre1.tree = PruneScenarioTree) =>
        /\ last.md = 2 => indv1.tree = TreeADC
        /\ last.md = 1 => indv1.tree = Leaf("D")

\* prune_at(2) has been applied to A(B(D,E), C).
C6_Witness ==
    /\ last.op = "prune_at" /\ ~panicked
    /\ last.pre1.tree = PruneScenarioTree /\ last.md = 2
    /\ indv1.tree # last.pre1.tree

\* C7: hard_prune mate leaves individual 2 (tree and count) as one_point mate
\* with the same trees and indices leaves it, and individual 1's tree as
\* prune_at(max_depth) of one_point's individual 1.
C7_HardPruneRefinesOnePoint ==
    (last.op = "hard_prune") =>
        LET r == mate_one_point(last.pre1, last.pre2, last.i1, last.i2)
        IN /\ indv2 = r.indv2
           /\ Exchanged(last.pre1.tree, last.pre2.tree, last.i1, last.i2,
                        r.indv1.tree, indv2.tree)
           /\ ~panicked => indv1.tree = prune_at(r.indv1, last.md).tree

\* A hard_prune mate that pruned individual 1 and left individual 2 deeper
\* than the cap.
C7_Witness ==
    /\ last.op = "hard_prune" /\ ~panicked /\ last.md >= 1
    /\ indv1.tree # mate_one_point(last.pre1, last.pre2, last.i1, last.i2).indv1.tree
    /\ Height(indv2.tree) > last.md - 1

\* C10: leaf-biased mate on trees with accurate counts exchanges the node at
\* index i1 of tree 1 with exactly one node of tree 2 whose leaf/internal
\* classification is the coin's, and the soft target never drops below zero.
C10_LeafBiasedExchange ==
    (last.op = "one_point_leaf_biased" /\ PreAccurate) =>
        /\ ~last.underflow
        /\ last.j2 # -1
        /\ (SubtreeOf(Flat(last.pre2.tree), last.j2 + 1)[1].arity = 0) = last.leaf
        /\ Exchanged(last.pre1.tree, last.pre2.tree, last.i1, last.j2,
                     indv1.tree, indv2.tree)

\* The depth beyond which no leaf may occur.
Cap(g) == IF g.mode = "FullRanged" THEN g.chosen_depth ELSE g.max_depth

\* C8: a perfect TreeGen holds a depth d in [min_depth, max_depth];
\* have_reached_a_leaf answers true exactly at depth d and draws nothing, so
\* a construction path from depth 0 ends with its leaf at depth d.
C8_PerfectDepth ==
    (tg.mode = "Perfect") =>
        /\ tg.min_depth <= tg.chosen_depth /\ tg.chosen_depth <= tg.max_depth
        /\ last_call.by # "none" =>
             /\ last_call.result = (last_call.depth = tg.chosen_depth)
             /\ ~last_call.drew
        /\ pc # "panicked"
        /\ pc = "building" => cur_depth <= tg.chosen_depth
        /\ pc = "leaf" => cur_depth = tg.chosen_depth

\* A perfect tree's leaf strictly between min_depth and max_depth.
C8_Witness ==
    /\ tg.mode = "Perfect" /\ pc = "leaf" /\ last_call.by = "child"
    /\ tg.min_depth < cur_depth /\ cur_depth < tg.max_depth

\* C9: in every mode and for every min_depth <= max_depth, a construction
\* path from depth 0 gets the answer true at a depth not beyond the mode's
\* cap, whatever the draws: it never descends past the cap, never fails, and
\* its leaf is at a depth <= cap.
C9_LeafWithinCap ==
    /\ pc \in {"building", "leaf"} => cur_depth <= Cap(tg)
    /\ (last_call.by = "child" /\ last_call.depth = Cap(tg) /\ tg.mode # "Perfect")
          => last_call.result
    /\ last_call.by = "child" => pc # "panicked"

\* A full tree with min_depth = max_depth > 0 whose leaf was forced at the cap.
C9_Witness ==
    /\ tg.mode = "Full" /\ tg.min_depth = tg.max_depth /\ tg.max_depth > 0
    /\ pc = "leaf" /\ last_call.by = "child" /\ cur_depth = tg.max_depth

====
